---- MODULE Spec2Model ----
EXTENDS Integers, Sequences, FiniteSets, TLC

(***************************************************************************)
(* Model of src/src/linear_human.py (class LinearHuman).                   *)
(*                                                                         *)
(* Python floats are modelled as exact rationals <<num, den>> in lowest    *)
(* terms with den > 0; IEEE-754 rounding is not modelled.  A 2-D point is  *)
(* a pair of rationals.  An optional value (None / a value) is a sequence  *)
(* of length 0 or 1.  Message header stamps are not modelled.              *)
(***************************************************************************)

\* ------------------------------------------------------------- bounds
MaxGoals == 2
MaxNow == 62
MaxJump == 30
MaxCell == 4

\* ------------------------------------------------- rational arithmetic
Abs(a) == IF a < 0 THEN -a ELSE a

RECURSIVE Gcd(_, _)
Gcd(a, b) == IF b = 0 THEN a ELSE Gcd(b, a % b)

Rat(n, d) ==
    LET g == Gcd(Abs(n), Abs(d))
        s == IF d < 0 THEN -1 ELSE 1
    IN  <<(s * n) \div g, (s * d) \div g>>

F(i) == <<i, 1>>

Add(a, b) == Rat(a[1] * b[2] + b[1] * a[2], a[2] * b[2])

Sub(a, b) == Rat(a[1] * b[2] - b[1] * a[2], a[2] * b[2])

Mul(a, b) == Rat(a[1] * b[1], a[2] * b[2])

Div(a, b) == Rat(a[1] * b[2], a[2] * b[1])

Lt(a, b) == a[1] * b[2] < b[1] * a[2]

Geq(a, b) == a[1] * b[2] >= b[1] * a[2]

IsZero(a) == a[1] = 0

\* int(x): truncation toward zero
PyInt(a) == IF a[1] >= 0 THEN a[1] \div a[2] ELSE -((-a[1]) \div a[2])

\* round(x): Python 2 rounds halves away from zero, Python 3 to even
PyRound(a, py) ==
    LET fl == a[1] \div a[2]
        twice == Sub(Mul(F(2), a), F(2 * fl))
    IN  IF Lt(twice, F(1)) THEN fl
        ELSE IF Lt(F(1), twice) THEN fl + 1
        ELSE IF py = 2 THEN (IF a[1] >= 0 THEN fl + 1 ELSE fl)
        ELSE (IF fl % 2 = 0 THEN fl ELSE fl + 1)

\* seq[i] with Python's 0-based, negative-wrapping index
PyInRange(seq, i) == i < Len(seq) /\ i >= -Len(seq)

PyIndex(seq, i) == IF i >= 0 THEN seq[i + 1] ELSE seq[Len(seq) + i + 1]

None == <<>>

Some(x) == <<x>>

\* ---------------------------------------------------------------- state
VARIABLES
    real_lower, real_upper, real_start, real_goals,   \* parameters
    sim_width, sim_height, human_height, py,
    real_width, real_height, res_x, res_y,            \* derived fields
    start_T, final_T, step_time, waypt_times,
    human_pose, prev_pose,
    marker_array,
    pc, err, now, shutdown, t,                         \* control, clock
    curr_time, curr_waypt_idx,                         \* last update_pose
    state_pub, marker_pub, goal_pub,                   \* last message / topic
    memo, sim_in, real_out, real_in, sim_out           \* observers

params == <<real_lower, real_upper, real_start, real_goals,
            sim_width, sim_height, human_height, py>>

fields == <<real_width, real_height, res_x, res_y,
            start_T, final_T, step_time, waypt_times, marker_array>>

pubs == <<state_pub, marker_pub, goal_pub>>

mapio == <<sim_in, real_out, real_in, sim_out>>

vars == <<params, fields, human_pose, prev_pose, pc, err, now, shutdown, t,
          curr_time, curr_waypt_idx, pubs, memo, mapio>>

\* ------------------------------------------------ parameter server values
Points == {<<F(0), F(0)>>, <<F(10), F(0)>>, <<F(3), F(4)>>}

GoalLists == UNION {[1..k -> Points] : k \in 0..MaxGoals}

\* ------------------------------------------------------- load_parameters
RealHeight(low, up) == Sub(up[2], low[2])

RealWidth(low, up) == Sub(up[1], low[1])

FinalT == F(60)

StepTime_perWaypoint(fT, goals) == Div(fT, F(Len(goals) + 2))

StepTime(fT, goals) == Div(fT, F(Len(goals) + 1))

WayptTimes_shifted(goals, st) ==
    [i \in 1..(Len(goals) + 2) |-> Mul(F(i), st)]

WayptTimes(goals, st) ==
    [i \in 1..(Len(goals) + 2) |-> Mul(F(i - 1), st)]

Res(extent, dim) == Div(extent, F(dim - 1))

LoadParameters ==
    /\ pc = "init"
    /\ real_height' = Some(RealHeight(real_lower, real_upper))
    /\ real_width' = Some(RealWidth(real_lower, real_upper))
    /\ start_T' = Some(now)
    /\ final_T' = Some(FinalT)
    /\ step_time' = Some(StepTime(FinalT, real_goals))
    /\ waypt_times' = WayptTimes(real_goals, StepTime(FinalT, real_goals))
    /\ human_pose' = None
    /\ IF sim_width - 1 = 0
       THEN /\ res_x' = None
            /\ res_y' = None
            /\ prev_pose' = None
            /\ err' = "ZeroDivisionError"
            /\ pc' = "crashed"
       ELSE IF sim_height - 1 = 0
       THEN /\ res_x' = Some(Res(RealWidth(real_lower, real_upper), sim_width))
            /\ res_y' = None
            /\ prev_pose' = None
            /\ err' = "ZeroDivisionError"
            /\ pc' = "crashed"
       ELSE /\ res_x' = Some(Res(RealWidth(real_lower, real_upper), sim_width))
            /\ res_y' = Some(Res(RealHeight(real_lower, real_upper), sim_height))
            /\ prev_pose' = Some(real_start)
            /\ err' = "none"
            /\ pc' = "markers"
    /\ UNCHANGED <<params, marker_array, now, shutdown, t, curr_time,
                   curr_waypt_idx, pubs, memo, mapio>>

\* ------------------------------------------------------------- markers
StateToMarker(xy, id) ==
    [type |-> "SPHERE", id |-> id, x |-> xy[1], y |-> xy[2], z |-> F(0),
     scale |-> <<res_x[1], res_y[1], res_x[1]>>]

PoseToMarker ==
    IF human_pose # None
    THEN [type |-> "CUBE", id |-> 0,
          x |-> human_pose[1].x, y |-> human_pose[1].y,
          z |-> Div(human_height, F(2)),
          scale |-> <<res_x[1], res_y[1], human_height>>]
    ELSE [type |-> "CUBE", id |-> 0, x |-> F(0), y |-> F(0), z |-> F(2),
          scale |-> <<res_x[1], res_y[1], human_height>>]

SetupMarkers ==
    /\ pc = "markers"
    /\ marker_array' = [i \in 1..Len(real_goals) |->
                            StateToMarker(real_goals[i], i - 1)]
    /\ pc' = "loop"
    /\ UNCHANGED <<params, real_width, real_height, res_x, res_y, start_T,
                   final_T, step_time, waypt_times, human_pose, prev_pose,
                   err, now, shutdown, t, curr_time, curr_waypt_idx, pubs,
                   memo, mapio>>

\* ---------------------------------------------------------- update_pose
Waypts(start, goals) == <<start>> \o goals \o <<start>>

IsHome_strict(ct, fT) == Lt(fT, ct)

IsHome(ct, fT) == Geq(ct, fT)

CurrWayptIdx_next(ct, st) == PyInt(Div(ct, st)) + 1

CurrWayptIdx(ct, st) == PyInt(Div(ct, st))

Lerp(p, n, ct, ti, tf) == Add(Mul(Sub(n, p), Div(Sub(ct, ti), Sub(tf, ti))), p)

TargetPos_noisy(prev, next, ct, ti, tf) ==
    <<Div(Add(Lerp(prev[1], next[1], ct, ti, tf), prev_pose[1][1]), F(2)),
      Div(Add(Lerp(prev[2], next[2], ct, ti, tf), prev_pose[1][2]), F(2))>>

TargetPos(prev, next, ct, ti, tf) ==
    <<Lerp(prev[1], next[1], ct, ti, tf), Lerp(prev[2], next[2], ct, ti, tf)>>

MakePose(xy) ==
    [frame_id |-> "/frame_id_1", x |-> xy[1], y |-> xy[2], z |-> F(0)]

PoseXY(p) == <<p[1].x, p[1].y>>

update_pose(ct) ==
    LET waypts == Waypts(real_start, real_goals)
        idx == CurrWayptIdx(ct, step_time[1])
    IN  /\ curr_time' = Some(ct)
        /\ IF IsHome(ct, final_T[1])
           THEN /\ curr_waypt_idx' = None
                /\ prev_pose' = prev_pose
                /\ human_pose' = Some(MakePose(real_start))
                /\ err' = "none"
           ELSE /\ curr_waypt_idx' = Some(idx)
                /\ IF ~(PyInRange(waypts, idx) /\ PyInRange(waypts, idx + 1))
                   THEN /\ err' = "IndexError"
                        /\ UNCHANGED <<human_pose, prev_pose>>
                   ELSE IF IsZero(Sub(PyIndex(waypt_times, idx + 1),
                                      PyIndex(waypt_times, idx)))
                   THEN /\ err' = "ZeroDivisionError"
                        /\ UNCHANGED <<human_pose, prev_pose>>
                   ELSE LET target_pos ==
                                TargetPos(PyIndex(waypts, idx),
                                          PyIndex(waypts, idx + 1), ct,
                                          PyIndex(waypt_times, idx),
                                          PyIndex(waypt_times, idx + 1))
                        IN  /\ prev_pose' = Some(target_pos)
                            /\ human_pose' = Some(MakePose(target_pos))
                            /\ err' = "none"

\* ------------------------------------------------- __init__ driver loop
NextLine_publishFirst(p) ==
    CASE p = "loop" -> "sample"
      [] p = "sample" -> "pub_state"
      [] p = "pub_state" -> "pub_marker"
      [] p = "pub_marker" -> "update"
      [] p = "update" -> "pub_goals"
      [] p = "pub_goals" -> "sleep"
      [] OTHER -> "loop"

NextLine(p) ==
    CASE p = "loop" -> "sample"
      [] p = "sample" -> "update"
      [] p = "update" -> "pub_state"
      [] p = "pub_state" -> "pub_marker"
      [] p = "pub_marker" -> "pub_goals"
      [] p = "pub_goals" -> "sleep"
      [] OTHER -> "loop"

Elapsed_wrapped(secs, st) == (secs - st) % 60

Elapsed(secs, st) == secs - st

LoopTest ==
    /\ pc = "loop"
    /\ pc' = IF shutdown THEN "exit" ELSE NextLine(pc)
    /\ UNCHANGED <<params, fields, human_pose, prev_pose, err, now, shutdown,
                   t, curr_time, curr_waypt_idx, pubs, memo, mapio>>

SampleTime ==
    /\ pc = "sample"
    /\ t' = Elapsed(now, start_T[1])
    /\ pc' = NextLine(pc)
    /\ UNCHANGED <<params, fields, human_pose, prev_pose, err, now, shutdown,
                   curr_time, curr_waypt_idx, pubs, memo, mapio>>

CallUpdatePose ==
    /\ pc = "update"
    /\ update_pose(F(t))
    /\ pc' = IF err' = "none" THEN NextLine(pc) ELSE "crashed"
    /\ UNCHANGED <<params, fields, now, shutdown, t, pubs, memo, mapio>>

PublishState ==
    /\ pc = "pub_state"
    /\ state_pub' = human_pose
    /\ pc' = NextLine(pc)
    /\ UNCHANGED <<params, fields, human_pose, prev_pose, err, now, shutdown,
                   t, curr_time, curr_waypt_idx, marker_pub, goal_pub, memo,
                   mapio>>

PublishMarker ==
    /\ pc = "pub_marker"
    /\ marker_pub' = Some(PoseToMarker)
    /\ pc' = NextLine(pc)
    /\ UNCHANGED <<params, fields, human_pose, prev_pose, err, now, shutdown,
                   t, curr_time, curr_waypt_idx, state_pub, goal_pub, memo,
                   mapio>>

PublishGoals ==
    /\ pc = "pub_goals"
    /\ goal_pub' = Some(marker_array)
    /\ pc' = NextLine(pc)
    /\ UNCHANGED <<params, fields, human_pose, prev_pose, err, now, shutdown,
                   t, curr_time, curr_waypt_idx, state_pub, marker_pub, memo,
                   mapio>>

\* rate.sleep(): the clock moves on by a whole number of seconds, possibly 0
Sleep ==
    /\ pc = "sleep"
    /\ \E d \in {0, 1, MaxJump} :
          /\ now + d <= MaxNow
          /\ now' = now + d
    /\ pc' = NextLine(pc)
    /\ UNCHANGED <<params, fields, human_pose, prev_pose, err, shutdown, t,
                   curr_time, curr_waypt_idx, pubs, memo, mapio>>

\* rospy.is_shutdown() is read at the loop test only
RequestShutdown ==
    /\ pc = "loop"
    /\ ~shutdown
    /\ shutdown' = TRUE
    /\ UNCHANGED <<params, fields, human_pose, prev_pose, pc, err, now, t,
                   curr_time, curr_waypt_idx, pubs, memo, mapio>>

Unset ==
    /\ real_width = None /\ real_height = None
    /\ res_x = None /\ res_y = None
    /\ start_T = None /\ final_T = None /\ step_time = None
    /\ waypt_times = None /\ marker_array = None
    /\ human_pose = None /\ prev_pose = None
    /\ curr_time = None /\ curr_waypt_idx = None
    /\ state_pub = None /\ marker_pub = None /\ goal_pub = None
    /\ memo = None /\ sim_in = None /\ real_out = None
    /\ real_in = None /\ sim_out = None
    /\ t = 0 /\ err = "none" /\ shutdown = FALSE

Init ==
    /\ real_lower = <<F(0), F(0)>>
    /\ real_upper = <<F(9), F(9)>>
    /\ real_start \in Points
    /\ real_goals \in GoalLists
    /\ \E dims \in {<<10, 10>>, <<1, 10>>, <<10, 1>>, <<0, 10>>} :
          /\ sim_width = dims[1]
          /\ sim_height = dims[2]
    /\ human_height = F(2)
    /\ py = 2
    /\ now \in 0..1
    /\ pc = "init"
    /\ Unset

Next ==
    \/ LoadParameters
    \/ SetupMarkers
    \/ LoopTest
    \/ SampleTime
    \/ CallUpdatePose
    \/ PublishState
    \/ PublishMarker
    \/ PublishGoals
    \/ Sleep
    \/ RequestShutdown

Spec == Init /\ [][Next]_vars

\* -------------------------------------- update_pose called as an operation
\* the object as load_parameters leaves it
Constructed ==
    /\ sim_width - 1 # 0 /\ sim_height - 1 # 0
    /\ real_height = Some(RealHeight(real_lower, real_upper))
    /\ real_width = Some(RealWidth(real_lower, real_upper))
    /\ start_T = Some(now)
    /\ final_T = Some(FinalT)
    /\ step_time = Some(StepTime(FinalT, real_goals))
    /\ waypt_times = WayptTimes(real_goals, StepTime(FinalT, real_goals))
    /\ res_x = Some(Res(RealWidth(real_lower, real_upper), sim_width))
    /\ res_y = Some(Res(RealHeight(real_lower, real_upper), sim_height))
    /\ human_pose = None
    /\ prev_pose = Some(real_start)
    /\ marker_array = None
    /\ curr_time = None /\ curr_waypt_idx = None
    /\ state_pub = None /\ marker_pub = None /\ goal_pub = None
    /\ memo = None /\ sim_in = None /\ real_out = None
    /\ real_in = None /\ sim_out = None
    /\ t = 0 /\ err = "none" /\ shutdown = FALSE

Range(f) == {f[i] : i \in DOMAIN f}

Midpoints(ts) ==
    {Div(Add(ts[i], ts[i + 1]), F(2)) : i \in 1..(Len(ts) - 1)}

TimeInputs ==
    {F(0), F(10), F(30), F(59), F(60), F(61)}
        \cup Range(waypt_times) \cup Midpoints(waypt_times)

\* six goals: seven segments of 60/7, boundaries that are not whole seconds
SixGoals ==
    [i \in 1..6 |-> IF i % 2 = 1 THEN <<F(10), F(0)>> ELSE <<F(3), F(4)>>]

InitInterp ==
    /\ real_lower = <<F(0), F(0)>>
    /\ real_upper = <<F(9), F(9)>>
    /\ real_start \in Points
    /\ real_goals \in GoalLists \cup {SixGoals}
    /\ sim_width = 10 /\ sim_height = 10
    /\ human_height = F(2)
    /\ py = 2
    /\ now = 0
    /\ pc = "api"
    /\ Constructed

\* memo remembers one earlier call <<argument, result, calls since>>
ApiUpdatePose ==
    /\ pc = "api"
    /\ \E ct \in TimeInputs :
          /\ update_pose(ct)
          /\ \/ /\ memo # None
                /\ memo' = Some(<<memo[1][1], memo[1][2],
                                  IF memo[1][3] < 2 THEN memo[1][3] + 1 ELSE 2>>)
             \/ /\ memo = None
                /\ memo' = None
             \/ /\ memo = None
                /\ err' = "none"
                /\ memo' = Some(<<ct, PoseXY(human_pose'), 0>>)
    /\ pc' = IF err' = "none" THEN "api" ELSE "crashed"
    /\ UNCHANGED <<params, fields, now, shutdown, t, pubs, mapio>>

NextInterp == ApiUpdatePose

SpecInterp == InitInterp /\ [][NextInterp]_vars

\* ------------------------------------------------- coordinate transforms
sim_to_real_coord_noflip(sim_coord) ==
    <<Add(Mul(F(sim_coord[1]), res_x[1]), real_lower[1]),
      Add(real_lower[2], Mul(F(sim_coord[2]), res_y[1]))>>

sim_to_real_coord(sim_coord) ==
    <<Add(Mul(F(sim_coord[1]), res_x[1]), real_lower[1]),
      Sub(real_upper[2], Mul(F(sim_coord[2]), res_y[1]))>>

real_to_sim_coord(real_coord) ==
    <<PyRound(Div(Sub(real_coord[1], real_lower[1]), res_x[1]), py),
      PyRound(Div(Sub(real_upper[2], real_coord[2]), res_y[1]), py)>>

Min(a, b) == IF a < b THEN a ELSE b

Cells ==
    (0..Min(sim_width - 1, MaxCell)) \X (0..Min(sim_height - 1, MaxCell))

\* real points half a cell apart along the grid diagonal
HalfCellPoints ==
    {<<Add(real_lower[1], Mul(F(i), Div(res_x[1], F(2)))),
       Sub(real_upper[2], Mul(F(i), Div(res_y[1], F(2))))>> :
        i \in 0..(2 * MaxCell)}

InitMap ==
    /\ real_lower \in {<<F(0), F(0)>>, <<F(-3), F(-2)>>}
    /\ real_upper \in {<<F(9), F(9)>>, <<F(4), F(6)>>}
    /\ real_start = <<F(0), F(0)>>
    /\ real_goals = <<<<F(3), F(4)>>>>
    /\ sim_width \in {2, 3, 10}
    /\ sim_height \in {2, 3, 10}
    /\ human_height = F(2)
    /\ py \in {2, 3}
    /\ now = 0
    /\ pc = "api"
    /\ Constructed

CallSimToReal ==
    /\ pc = "api"
    /\ \E cell \in Cells :
          /\ sim_in' = Some(cell)
          /\ real_out' = Some(sim_to_real_coord(cell))
    /\ real_in' = None
    /\ sim_out' = None
    /\ UNCHANGED <<params, fields, human_pose, prev_pose, pc, err, now,
                   shutdown, t, curr_time, curr_waypt_idx, pubs, memo>>

CallRealToSim ==
    /\ pc = "api"
    /\ \E p \in HalfCellPoints \cup Range(real_out) :
          /\ real_in' = Some(p)
          /\ IF IsZero(res_x[1]) \/ IsZero(res_y[1])
             THEN /\ err' = "ZeroDivisionError"
                  /\ pc' = "crashed"
                  /\ sim_out' = None
             ELSE /\ err' = "none"
                  /\ pc' = "api"
                  /\ sim_out' = Some(real_to_sim_coord(p))
    /\ UNCHANGED <<params, fields, human_pose, prev_pose, now, shutdown, t,
                   curr_time, curr_waypt_idx, pubs, memo, sim_in, real_out>>

NextMap ==
    \/ CallSimToReal
    \/ CallRealToSim

SpecMap == InitMap /\ [][NextMap]_vars

\* ================================================================ claims
\* position_at as the specification words it: segment k = floor(t / segment
\* length), fraction f = (t - t_k) / (t_k+1 - t_k), result p0 + f * (p1 - p0);
\* the start waypoint from total_duration on
SpecPositionAt(ct) ==
    LET n == Len(real_goals)
        wp == <<real_start>> \o real_goals \o <<real_start>>
        seg == Rat(60, n + 1)
        q == Div(ct, seg)
        k == q[1] \div q[2]
        t0 == Mul(F(k), seg)
        t1 == Mul(F(k + 1), seg)
        f == Div(Sub(ct, t0), Sub(t1, t0))
    IN  IF Geq(ct, F(60)) THEN real_start
        ELSE <<Add(wp[k + 1][1], Mul(f, Sub(wp[k + 2][1], wp[k + 1][1]))),
               Add(wp[k + 1][2], Mul(f, Sub(wp[k + 2][2], wp[k + 1][2])))>>

Scenario ==
    /\ real_start = <<F(0), F(0)>>
    /\ real_goals = <<<<F(10), F(0)>>>>
    /\ final_T = Some(F(60))

CalledAt(ct) == curr_time = Some(ct)

Answered(xy) == err = "none" /\ human_pose # None /\ PoseXY(human_pose) = xy

\* C1 (as stated): for start=(0,0), goals=[(10,0)], total_duration=60 the
\* waypoints are [(0,0),(10,0),(0,0)], the boundary table is [0,20,40,60],
\* position_at(10) = (5,0), position_at(30) = (5,0), position_at(60) = (0,0).
C1_ScenarioAsStated ==
    Scenario =>
        /\ Waypts(real_start, real_goals) =
              <<<<F(0), F(0)>>, <<F(10), F(0)>>, <<F(0), F(0)>>>>
        /\ waypt_times = <<F(0), F(20), F(40), F(60)>>
        /\ CalledAt(F(10)) => Answered(<<F(5), F(0)>>)
        /\ CalledAt(F(30)) => Answered(<<F(5), F(0)>>)
        /\ CalledAt(F(60)) => Answered(<<F(0), F(0)>>)

\* C1 (amended): for the same schedule the waypoints are
\* [(0,0),(10,0),(0,0)], the boundary table is [0,30,60] (two segments of 30),
\* position_at(10) = (10/3,0), position_at(30) = (10,0) and
\* position_at(60) = (0,0).
C1_ScenarioAmended ==
    Scenario =>
        /\ Waypts(real_start, real_goals) =
              <<<<F(0), F(0)>>, <<F(10), F(0)>>, <<F(0), F(0)>>>>
        /\ waypt_times = <<F(0), F(30), F(60)>>
        /\ CalledAt(F(10)) => Answered(<<Rat(10, 3), F(0)>>)
        /\ CalledAt(F(30)) => Answered(<<F(10), F(0)>>)
        /\ CalledAt(F(60)) => Answered(<<F(0), F(0)>>)

C1_Witness ==
    /\ Scenario
    /\ CalledAt(F(10))
    /\ Answered(<<Rat(10, 3), F(0)>>)
    /\ memo # None /\ memo[1][1] = F(30) /\ memo[1][2] = <<F(10), F(0)>>

C3_StartAtZeroAndHome ==
    (curr_time # None /\ (curr_time[1] = F(0) \/ Geq(curr_time[1], F(60)))) =>
        Answered(real_start)

C3_Witness ==
    /\ curr_time # None
    /\ Geq(curr_time[1], F(60))
    /\ Answered(real_start)
    /\ prev_pose # Some(real_start)

\* C6: two update_pose calls with the same elapsed time yield the same
\* position, whatever calls were made in between: the answer depends on
\* neither prev_pose nor the stored human_pose.
C6_SameTimeSamePosition ==
    (memo # None /\ CalledAt(memo[1][1])) => Answered(memo[1][2])

C6_Witness ==
    /\ memo # None
    /\ memo[1][3] = 2
    /\ CalledAt(memo[1][1])
    /\ Answered(memo[1][2])
    /\ memo[1][2] # real_start

C5_RoundTrip ==
    (sim_in # None /\ sim_out # None /\ real_in = real_out) => sim_out = sim_in

C5_Witness ==
    /\ sim_width = 10 /\ sim_height = 10
    /\ real_lower = <<F(0), F(0)>> /\ real_upper = <<F(9), F(9)>>
    /\ sim_in = Some(<<3, 4>>)
    /\ real_in = real_out
    /\ sim_out = Some(<<3, 4>>)

\* C4 (as stated): with an empty goal list or a grid dimension below 2,
\* construction fails and the tick loop is never entered: no pose is ever
\* computed or published.
InvalidConfig == real_goals = <<>> \/ sim_width < 2 \/ sim_height < 2

C4_InvalidConfigNeverTicks ==
    InvalidConfig =>
        /\ pc \in {"init", "crashed"}
        /\ human_pose = None
        /\ state_pub = None

\* C8 (as stated): after every update_pose call, also one with elapsed time
\* >= total_duration, prev_pose is the position that call computed; before
\* the first call it is the start waypoint.
C8_PrevPoseIsLastComputed ==
    /\ (curr_time = None /\ prev_pose # None) => prev_pose = Some(real_start)
    /\ (curr_time # None /\ err = "none") =>
           (human_pose # None /\ prev_pose = Some(PoseXY(human_pose)))

\* C7: under a non-decreasing clock the segment observed by successive ticks
\* never decreases (start, goal_1, ..., goal_n, home), and from the tick that
\* observes elapsed time >= total_duration on, every tick publishes the start
\* position.
Phase ==
    IF curr_time = None THEN 0
    ELSE IF curr_waypt_idx # None THEN curr_waypt_idx[1]
    ELSE Len(real_goals) + 1

AtHome == curr_time # None /\ curr_waypt_idx = None

C7_WaypointOrder ==
    [][/\ Phase' >= Phase
       /\ (AtHome /\ state_pub' # state_pub) =>
              (state_pub' # None /\ PoseXY(state_pub') = real_start)
       /\ (AtHome /\ curr_time' # curr_time) => AtHome']_vars

C7_Witness ==
    /\ AtHome
    /\ t >= 61
    /\ pc = "sleep"
    /\ Len(real_goals) >= 2
    /\ state_pub # None /\ PoseXY(state_pub) = real_start
    /\ prev_pose # Some(real_start)

\* C10: each tick samples the elapsed time, calls update_pose, publishes the
\* pose, publishes the pose marker, publishes the goal markers, then sleeps;
\* so the pose published is non-null and is position_at of that tick's
\* elapsed time with z = 0, and the marker published carries that tick's x, y
\* (never the no-pose fallback at (0,0,2)).
TickOrder ==
    {<<"loop", "sample">>, <<"loop", "exit">>, <<"sample", "update">>,
     <<"update", "pub_state">>, <<"update", "crashed">>,
     <<"pub_state", "pub_marker">>, <<"pub_marker", "pub_goals">>,
     <<"pub_goals", "sleep">>, <<"sleep", "loop">>}

C10_TickOrder ==
    [][/\ (pc' # pc /\ pc \notin {"init", "markers"}) => <<pc, pc'>> \in TickOrder
       /\ (pc = "pub_state" /\ pc' # pc) =>
              /\ state_pub' # None
              /\ PoseXY(state_pub') = SpecPositionAt(F(t))
              /\ state_pub'[1].z = F(0)
       /\ (pc = "pub_marker" /\ pc' # pc) =>
              /\ marker_pub' # None
              /\ <<marker_pub'[1].x, marker_pub'[1].y>> = SpecPositionAt(F(t))
              /\ marker_pub'[1].z = Div(human_height, F(2))
              /\ marker_pub'[1].z # F(2)]_vars

C10_Witness ==
    /\ pc = "sleep"
    /\ t >= 1
    /\ state_pub # None /\ marker_pub # None /\ goal_pub # None
    /\ PoseXY(state_pub) = SpecPositionAt(F(t))
    /\ <<marker_pub[1].x, marker_pub[1].y>> = PoseXY(state_pub)
    /\ PoseXY(state_pub) # real_start

====
